---- MODULE Spec2Model ----
(***************************************************************************)
(* The web-sys window backend of winit (platform_impl/websys/window.rs).    *)
(*                                                                         *)
(* The host document is a sequence of elements; a Window owns the index of *)
(* its canvas element and the redraw_requested cell.  Every step records   *)
(* the operation it performed, its argument and its outcome in `call`.     *)
(* A panic (expect / unwrap / unimplemented!) sets `halted`, after which    *)
(* nothing runs.                                                           *)
(***************************************************************************)
EXTENDS Integers, Sequences, FiniteSets, TLC

VARIABLES elems, windows, registered, pc, pending, call, halted

vars == <<elems, windows, registered, pc, pending, call, halted>>

(* ------------------------------ bounds --------------------------------- *)

\* Windows the application constructs.
MaxWindows == 1
\* Elements the document ever holds (four are there from the start).
MaxElems == 5

(* --------------------------- the host document ------------------------- *)

Rect(x, y, w, h) == [x |-> x, y |-> y, width |-> w, height |-> h]

ZeroRect == Rect(0, 0, 0, 0)

\* Bounding boxes the host's layout gives a canvas on the page.
Boxes == {Rect(0, 0, 300, 150), Rect(100, 50, 800, 600)}

\* The box of a canvas just appended and never styled: nothing when its
\* container is not rendered, else the canvas's intrinsic 300x150.
DefaultBoxes == {ZeroRect, Rect(0, 0, 300, 150)}

\* The index of the document's root element (the body).
Root == 1

None == 0

Element(tag, id, parent, accepts, box) ==
    [tag |-> tag, id |-> id, parent |-> parent, accepts |-> accepts,
     box |-> box, cursor |-> ""]

\* The page before the application runs: a canvas "stage", a container "app",
\* and a container "stale" on which the host rejects append_child.
InitialDocument ==
    << Element("body", "", None, TRUE, ZeroRect),
       Element("canvas", "stage", Root, TRUE, Rect(100, 50, 800, 600)),
       Element("div", "app", Root, TRUE, ZeroRect),
       Element("div", "stale", Root, FALSE, ZeroRect) >>

CanvasId(id) == [kind |-> "CanvasId", id |-> id]
ContainerId(id) == [kind |-> "ContainerId", id |-> id]

\* The selections a caller passes: an existing canvas, an element that is no
\* canvas, ids that match nothing (CanvasId("") is ElementSelection::default()),
\* a container, and a container that rejects the append.
ElementSelection ==
    {CanvasId("stage"), CanvasId("app"), CanvasId("missing"), CanvasId(""),
     ContainerId("app"), ContainerId("stale"), ContainerId("missing")}

RECURSIVE attached(_)
attached(e) ==
    IF e = Root THEN TRUE
    ELSE IF elems[e].parent = None THEN FALSE
    ELSE attached(elems[e].parent)

\* Mutant of get_element_by_id: falls back to the body when nothing matches.
get_element_by_id_or_body(id) ==
    LET found == {e \in DOMAIN elems : elems[e].id = id /\ attached(e)}
    IN  IF id = "" \/ found = {} THEN Root
        ELSE CHOOSE e \in found : \A f \in found : e <= f

\* document.get_element_by_id: the first element in the document carrying
\* the id, None when there is none (the empty id matches nothing).
get_element_by_id(id) ==
    LET found == {e \in DOMAIN elems : elems[e].id = id /\ attached(e)}
    IN  IF id = "" \/ found = {} THEN None
        ELSE CHOOSE e \in found : \A f \in found : e <= f

\* dyn_into::<HtmlCanvasElement>() succeeds exactly on canvas elements.
dyn_into_canvas(e) == elems[e].tag = "canvas"

\* document.create_element("canvas"): a fresh, detached, unstyled canvas.
create_element(tag) == Element(tag, "", None, TRUE, ZeroRect)

\* parent.append_child(&canvas): Ok when the host accepts the insertion.
append_child_ok(parent) == elems[parent].accepts

(* ------------------------------ outcomes ------------------------------- *)

Ret(kind, nums, err) == [kind |-> kind, nums |-> nums, err |-> err]

Unit == Ret("Unit", <<>>, "")
Panic == Ret("Panic", <<>>, "")
InProgress == Ret("InProgress", <<>>, "")
Ok(nums) == Ret("Ok", nums, "")
Err(e) == Ret("Err", <<>>, e)
Value(nums) == Ret("Value", nums, "")
OptionNone == Ret("None", <<>>, "")

Call(op, win, arg, ret) == [op |-> op, win |-> win, arg |-> arg, ret |-> ret]

Running == ~halted /\ pc = "idle"

(* ------------------------------ Init ----------------------------------- *)

Init ==
    /\ elems = InitialDocument
    /\ windows = <<>>
    /\ registered = <<>>
    /\ pc = "idle"
    /\ pending = None
    /\ call = Call("none", 0, <<>>, Unit)
    /\ halted = FALSE

(* --------------------------- Window::new ------------------------------- *)

\* An expect/unwrap/unimplemented! that fires: the program stops here.
Halts(op, win, arg) ==
    /\ halted' = TRUE
    /\ call' = Call(op, win, arg, Panic)
    /\ UNCHANGED <<elems, windows, registered, pc, pending>>

\* Mutant of new_CanvasId: creates a canvas of its own instead of binding the
\* one it found.
new_CanvasId_creates(sel) ==
    LET e == get_element_by_id(sel.id)
    IN  IF e = None \/ ~dyn_into_canvas(e)
        THEN Halts("new", 0, sel)
        ELSE /\ elems' = Append(elems, create_element("canvas"))
             /\ pending' = Len(elems) + 1
             /\ pc' = "resolved"
             /\ call' = Call("new", 0, sel, InProgress)
             /\ UNCHANGED <<windows, registered, halted>>

\* ElementSelection::CanvasId(id): the existing element, which must be a canvas.
new_CanvasId(sel) ==
    LET e == get_element_by_id(sel.id)
    IN  IF e = None \/ ~dyn_into_canvas(e)
        THEN Halts("new", 0, sel)
        ELSE /\ pending' = e
             /\ pc' = "resolved"
             /\ call' = Call("new", 0, sel, InProgress)
             /\ UNCHANGED <<elems, windows, registered, halted>>

\* Mutant of new_ContainerId: creates the canvas and never appends it.
new_ContainerId_detached(sel) ==
    LET parent == get_element_by_id(sel.id)
    IN  IF parent = None
        THEN Halts("new", 0, sel)
        ELSE /\ elems' = Append(elems, create_element("canvas"))
             /\ pending' = Len(elems) + 1
             /\ pc' = "resolved"
             /\ call' = Call("new", 0, sel, InProgress)
             /\ UNCHANGED <<windows, registered, halted>>

\* Mutant of new_ContainerId: drops the result of append_child instead of
\* returning its error.
new_ContainerId_ignores_err(sel) ==
    LET parent == get_element_by_id(sel.id)
    IN  IF parent = None
        THEN Halts("new", 0, sel)
        ELSE \E box \in DefaultBoxes :
             /\ elems' = Append(elems,
                    IF append_child_ok(parent)
                    THEN [create_element("canvas") EXCEPT !.parent = parent, !.box = box]
                    ELSE create_element("canvas"))
             /\ pending' = Len(elems) + 1
             /\ pc' = "resolved"
             /\ call' = Call("new", 0, sel, InProgress)
             /\ UNCHANGED <<windows, registered, halted>>

\* ElementSelection::ContainerId(id): a new canvas appended to the container.
new_ContainerId(sel) ==
    LET parent == get_element_by_id(sel.id)
        canvas == Len(elems) + 1
    IN  IF parent = None
        THEN Halts("new", 0, sel)
        ELSE IF ~append_child_ok(parent)
        THEN \* `?` returns the error; the created canvas stays detached
             /\ elems' = Append(elems, create_element("canvas"))
             /\ call' = Call("new", 0, sel, Err("OsError"))
             /\ UNCHANGED <<windows, registered, pc, pending, halted>>
        ELSE \E box \in DefaultBoxes :
             /\ elems' = Append(elems,
                    [create_element("canvas") EXCEPT !.parent = parent, !.box = box])
             /\ pending' = canvas
             /\ pc' = "resolved"
             /\ call' = Call("new", 0, sel, InProgress)
             /\ UNCHANGED <<windows, registered, halted>>

\* Lines 118-141: resolve the surface element of the selection.
new_resolve ==
    /\ Running
    /\ Len(windows) < MaxWindows
    /\ \E sel \in ElementSelection :
         IF sel.kind = "CanvasId"
         THEN new_CanvasId(sel)
         ELSE Len(elems) < MaxElems /\ new_ContainerId(sel)

\* Line 143: target.setup_window(&element).
setup_window ==
    /\ ~halted
    /\ pc = "resolved"
    /\ registered' = Append(registered, pending)
    /\ pc' = "set_up"
    /\ UNCHANGED <<elems, windows, pending, call, halted>>

\* Lines 145-148: Ok(Window { canvas: element, redraw_requested: false }).
new_return ==
    /\ ~halted
    /\ pc = "set_up"
    /\ windows' = Append(windows, [canvas |-> pending, redraw_requested |-> FALSE])
    /\ pc' = "idle"
    /\ pending' = None
    /\ call' = Call("new", Len(windows) + 1, call.arg, Ok(<<>>))
    /\ UNCHANGED <<elems, registered, halted>>

(* ------------------------- identity and redraw ------------------------- *)

\* A method that returns `ret` and touches nothing.
Returns(op, win, arg, ret) ==
    /\ call' = Call(op, win, arg, ret)
    /\ UNCHANGED <<elems, windows, registered, pc, pending, halted>>

Window == DOMAIN windows

\* fn canvas_as_element(&self) -> &HtmlElement
canvas_as_element(w) == windows[w].canvas

get_bounding_client_rect(e) == elems[e].box

\* WindowId::dummy(): the one value of the fieldless struct.
WindowId_dummy == Value(<<>>)

id == Running /\ \E w \in Window : Returns("id", w, <<>>, WindowId_dummy)

hidpi_factor == Running /\ \E w \in Window : Returns("hidpi_factor", w, <<>>, Value(<<1>>))

\* Mutant of request_redraw: flips the flag instead of setting it.
request_redraw_toggles ==
    /\ Running
    /\ \E w \in Window :
         /\ windows' = [windows EXCEPT ![w].redraw_requested = ~@]
         /\ call' = Call("request_redraw", w, <<>>, Unit)
         /\ UNCHANGED <<elems, registered, pc, pending, halted>>

request_redraw ==
    /\ Running
    /\ \E w \in Window :
         /\ windows' = [windows EXCEPT ![w].redraw_requested = TRUE]
         /\ call' = Call("request_redraw", w, <<>>, Unit)
         /\ UNCHANGED <<elems, registered, pc, pending, halted>>

(* ----------------------- position and size functions ------------------- *)

\* Arguments of the setters.
Positions == {<<0, 0>>, <<100, 50>>}
Sizes == {<<0, 0>>, <<800, 600>>}
OptionSizes == {<<>>} \cup {<<s>> : s \in Sizes}

inner_position_of(w) ==
    LET rect == get_bounding_client_rect(canvas_as_element(w))
    IN  Ok(<<rect.x, rect.y>>)

\* Mutant of outer_position_of: reports the position as unsupported.
outer_position_of_unsupported(w) == Err("NotSupported")

outer_position_of(w) == inner_position_of(w)

inner_size_of(w) ==
    LET rect == get_bounding_client_rect(canvas_as_element(w))
    IN  Value(<<rect.width, rect.height>>)

outer_size_of(w) == inner_size_of(w)

inner_position ==
    Running /\ \E w \in Window : Returns("inner_position", w, <<>>, inner_position_of(w))

outer_position ==
    Running /\ \E w \in Window : Returns("outer_position", w, <<>>, outer_position_of(w))

inner_size ==
    Running /\ \E w \in Window : Returns("inner_size", w, <<>>, inner_size_of(w))

outer_size ==
    Running /\ \E w \in Window : Returns("outer_size", w, <<>>, outer_size_of(w))

set_outer_position ==
    Running /\ \E w \in Window, position \in Positions :
        Halts("set_outer_position", w, position)

set_inner_size ==
    Running /\ \E w \in Window, size \in Sizes : Halts("set_inner_size", w, size)

set_min_inner_size ==
    Running /\ \E w \in Window, dimensions \in OptionSizes :
        Halts("set_min_inner_size", w, dimensions)

set_max_inner_size ==
    Running /\ \E w \in Window, dimensions \in OptionSizes :
        Halts("set_max_inner_size", w, dimensions)

(* ------------------------ misc. attribute functions -------------------- *)

Titles == {"", "winit"}
OptionMonitors == {<<>>, <<"MonitorHandle">>}
OptionIcons == {<<>>, <<"Icon">>}

\* Mutant of set_title: a silent no-op.
set_title_noop ==
    Running /\ \E w \in Window, title \in Titles : Returns("set_title", w, title, Unit)

set_title == Running /\ \E w \in Window, title \in Titles : Halts("set_title", w, title)

set_visible ==
    Running /\ \E w \in Window, visible \in BOOLEAN : Halts("set_visible", w, visible)

set_resizable ==
    Running /\ \E w \in Window, resizable \in BOOLEAN : Halts("set_resizable", w, resizable)

set_maximized ==
    Running /\ \E w \in Window, maximized \in BOOLEAN :
        Returns("set_maximized", w, maximized, Unit)

\* Mutant of set_fullscreen: unimplemented like the setters around it.
set_fullscreen_unimplemented ==
    Running /\ \E w \in Window, monitor \in OptionMonitors :
        Halts("set_fullscreen", w, monitor)

set_fullscreen ==
    Running /\ \E w \in Window, monitor \in OptionMonitors :
        Returns("set_fullscreen", w, monitor, Unit)

fullscreen_of(w) == OptionNone

fullscreen == Running /\ \E w \in Window : Returns("fullscreen", w, <<>>, fullscreen_of(w))

set_decorations ==
    Running /\ \E w \in Window, decorations \in BOOLEAN :
        Returns("set_decorations", w, decorations, Unit)

set_always_on_top ==
    Running /\ \E w \in Window, always_on_top \in BOOLEAN :
        Returns("set_always_on_top", w, always_on_top, Unit)

set_window_icon ==
    Running /\ \E w \in Window, window_icon \in OptionIcons :
        Halts("set_window_icon", w, window_icon)

set_ime_position ==
    Running /\ \E w \in Window, position \in Positions :
        Returns("set_ime_position", w, position, Unit)

(* ---------------------------- cursor functions ------------------------- *)

\* The variants the match of set_cursor_icon names.
MatchedIcons ==
    {"Crosshair", "Hand", "Move", "Text", "Wait", "Help", "Progress",
     "NotAllowed", "ContextMenu", "Cell", "VerticalText", "Alias", "Copy", "NoDrop",
     "EResize", "NResize", "NeResize", "NwResize", "SResize", "SeResize",
     "SwResize", "WResize", "EwResize", "NsResize", "NeswResize", "NwseResize",
     "ColResize", "RowResize"}

\* The variants of CursorIcon the match leaves to its wildcard arm.
WildcardIcons ==
    {"Default", "Arrow", "AllScroll", "ZoomIn", "ZoomOut", "Grab", "Grabbing"}

CursorIcon == MatchedIcons \cup WildcardIcons

\* The icons the application passes in the full window model.
IconInputs == {"Hand", "Default"}

\* Mutant of wildcard_style: the CSS keyword "default".
wildcard_style_default == "default"

\* The style of the wildcard arm.
wildcard_style == "auto"

cursor_style(cursor) ==
    CASE cursor = "Crosshair" -> "crosshair"
      [] cursor = "Hand" -> "pointer"
      [] cursor = "Move" -> "move"
      [] cursor = "Text" -> "text"
      [] cursor = "Wait" -> "wait"
      [] cursor = "Help" -> "help"
      [] cursor = "Progress" -> "progress"
      [] cursor = "NotAllowed" -> "not-allowed"
      [] cursor = "ContextMenu" -> "context-menu"
      [] cursor = "Cell" -> "cell"
      [] cursor = "VerticalText" -> "vertical-text"
      [] cursor = "Alias" -> "alias"
      [] cursor = "Copy" -> "copy"
      [] cursor = "NoDrop" -> "no-drop"
      [] cursor = "EResize" -> "e-resize"
      [] cursor = "NResize" -> "n-resize"
      [] cursor = "NeResize" -> "ne-resize"
      [] cursor = "NwResize" -> "nw-resize"
      [] cursor = "SResize" -> "s-resize"
      [] cursor = "SeResize" -> "se-resize"
      [] cursor = "SwResize" -> "sw-resize"
      [] cursor = "WResize" -> "w-resize"
      [] cursor = "EwResize" -> "ew-resize"
      [] cursor = "NsResize" -> "ns-resize"
      [] cursor = "NeswResize" -> "nesw-resize"
      [] cursor = "NwseResize" -> "nwse-resize"
      [] cursor = "ColResize" -> "col-resize"
      [] cursor = "RowResize" -> "row-resize"
      [] OTHER -> wildcard_style

\* style().set_property("cursor", value).unwrap() on the window's canvas; the
\* inline style of an element is writable, so the unwrap does not fire.
set_property_cursor(w, value) ==
    [elems EXCEPT ![canvas_as_element(w)].cursor = value]

set_cursor_icon_from(icons) ==
    /\ Running
    /\ \E w \in Window, cursor \in icons :
         /\ elems' = set_property_cursor(w, cursor_style(cursor))
         /\ call' = Call("set_cursor_icon", w, cursor, Unit)
         /\ UNCHANGED <<windows, registered, pc, pending, halted>>

set_cursor_icon == set_cursor_icon_from(IconInputs)

NotSupported == Err("NotSupported")

set_cursor_position ==
    Running /\ \E w \in Window, position \in Positions :
        Returns("set_cursor_position", w, position, NotSupported)

\* Mutant of set_cursor_grab: reports success.
set_cursor_grab_ok ==
    Running /\ \E w \in Window, grab \in BOOLEAN :
        Returns("set_cursor_grab", w, grab, Ok(<<>>))

set_cursor_grab ==
    Running /\ \E w \in Window, grab \in BOOLEAN :
        Returns("set_cursor_grab", w, grab, NotSupported)

\* Mutant of visible_style: the mapping the parameter's name suggests.
visible_style_by_name(visible) == IF visible THEN "auto" ELSE "none"

visible_style(visible) == IF visible THEN "none" ELSE "auto"

set_cursor_visible ==
    /\ Running
    /\ \E w \in Window, visible \in BOOLEAN :
         /\ elems' = set_property_cursor(w, visible_style(visible))
         /\ call' = Call("set_cursor_visible", w, visible, Unit)
         /\ UNCHANGED <<windows, registered, pc, pending, halted>>

(* --------------------------- monitor functions ------------------------- *)

current_monitor ==
    Running /\ \E w \in Window : Returns("current_monitor", w, <<>>, Value(<<>>))

available_monitors ==
    Running /\ \E w \in Window : Returns("available_monitors", w, <<>>, Value(<<1>>))

primary_monitor ==
    Running /\ \E w \in Window : Returns("primary_monitor", w, <<>>, Value(<<>>))

(* ------------------------------ the host ------------------------------- *)

\* The host lays the page out again: an attached canvas gets another box.
host_layout ==
    /\ Running
    /\ \E e \in DOMAIN elems, box \in Boxes :
         /\ elems[e].tag = "canvas" /\ attached(e)
         /\ elems[e].box # box
         /\ elems' = [elems EXCEPT ![e].box = box]
         /\ call' = Call("host_layout", 0, e, Unit)
         /\ UNCHANGED <<windows, registered, pc, pending, halted>>

\* The event loop honours a pending redraw of a window and clears the flag.
event_loop_clear ==
    /\ Running
    /\ \E w \in Window :
         /\ windows[w].redraw_requested
         /\ windows' = [windows EXCEPT ![w].redraw_requested = FALSE]
         /\ call' = Call("event_loop_clear", w, <<>>, Unit)
         /\ UNCHANGED <<elems, registered, pc, pending, halted>>

Next ==
    \/ new_resolve
    \/ setup_window
    \/ new_return
    \/ id
    \/ hidpi_factor
    \/ request_redraw
    \/ inner_position
    \/ outer_position
    \/ set_outer_position
    \/ inner_size
    \/ set_inner_size
    \/ outer_size
    \/ set_min_inner_size
    \/ set_max_inner_size
    \/ set_title
    \/ set_visible
    \/ set_resizable
    \/ set_maximized
    \/ set_fullscreen
    \/ fullscreen
    \/ set_decorations
    \/ set_always_on_top
    \/ set_window_icon
    \/ set_ime_position
    \/ set_cursor_icon
    \/ set_cursor_position
    \/ set_cursor_grab
    \/ set_cursor_visible
    \/ current_monitor
    \/ available_monitors
    \/ primary_monitor
    \/ host_layout
    \/ event_loop_clear

Spec == Init /\ [][Next]_vars

\* The cursor subsystem with every CursorIcon variant as input, from the
\* state right after Window::new with CanvasId("stage") has returned.
InitCursor ==
    /\ elems = InitialDocument
    /\ windows = << [canvas |-> 2, redraw_requested |-> FALSE] >>
    /\ registered = << 2 >>
    /\ pc = "idle"
    /\ pending = None
    /\ call = Call("new", 1, CanvasId("stage"), Ok(<<>>))
    /\ halted = FALSE

NextCursor ==
    \/ set_cursor_icon_from(CursorIcon)
    \/ set_cursor_visible
    \/ request_redraw
    \/ host_layout

SpecCursor == InitCursor /\ [][NextCursor]_vars

\* The state SpecCursor starts in is one the full model reaches.
InitCursorUnreached == ~InitCursor

(* ======================================================================= *)
(* Claims                                                                   *)
(* ======================================================================= *)

\* The canvas a window is bound to, and the last element the document got.
CanvasOf(w) == elems[windows[w].canvas]
Newest == Len(elems)

\* An id that names an element of the document, stated on the document itself.
Matches(ident) ==
    ident # "" /\ \E e \in DOMAIN elems : elems[e].id = ident /\ elems[e].parent # None

MatchOf(ident) ==
    CHOOSE e \in DOMAIN elems : elems[e].id = ident /\ elems[e].parent # None

StartsNew(kind) == pc = "idle" /\ call'.op = "new" /\ call'.arg.kind = kind

ReturnsNew(kind) ==
    call.op = "new" /\ call.ret.kind = "Ok" /\ call.arg.kind = kind

(* ------------------------------- C1 ------------------------------------ *)

\* Right after the constructor returned for a ContainerId selection.
C1_After ==
    ReturnsNew("ContainerId")
    => /\ call.win = Len(windows)
       /\ windows[call.win].canvas = Newest
       /\ elems[Newest].tag = "canvas"
       /\ elems[Newest].parent = MatchOf(call.arg.id)
       /\ inner_size_of(call.win) =
             Value(<<elems[Newest].box.width, elems[Newest].box.height>>)

C1_Step ==
    /\ ( /\ StartsNew("ContainerId")
         /\ Matches(call'.arg.id)
         /\ elems[MatchOf(call'.arg.id)].accepts )
       => /\ ~halted'
          /\ call'.ret.kind = "InProgress"
          /\ Len(elems') = Len(elems) + 1
          /\ SubSeq(elems', 1, Len(elems)) = elems
          /\ elems'[Len(elems')].tag = "canvas"
          /\ elems'[Len(elems')].parent = MatchOf(call'.arg.id)
          /\ pending' = Len(elems')
    /\ pc \in {"resolved", "set_up"} => ~halted' /\ elems' = elems
    /\ (pc = "set_up" /\ pc' = "idle")
       => /\ call'.ret.kind = "Ok"
          /\ windows' = Append(windows, [canvas |-> pending, redraw_requested |-> FALSE])
    /\ C1_After'

\* C1 (amended): Window::new with ContainerId(id), id naming an attached
\* container that accepts the append, creates exactly one new canvas element,
\* appends it as a child of that container and returns Ok(Window) bound to
\* it; inner_size() right after construction equals the bounding box the host
\* gives the new element, which the code neither sets nor assumes to be 0x0.
C1_ContainerCreatesOneChild == [][C1_Step]_vars

\* C1 witness: a Window was just returned for ContainerId("app"), bound to the
\* newly appended canvas, whose box is the host's 300x150.
C1_Witness ==
    /\ ReturnsNew("ContainerId")
    /\ call.arg.id = "app"
    /\ windows[call.win].canvas = Newest
    /\ elems[Newest].parent = 3
    /\ inner_size_of(call.win) = Value(<<300, 150>>)

\* C1 as stated: inner_size() right after a ContainerId construction is 0x0.
C1_Original_InnerSizeZero ==
    ReturnsNew("ContainerId") => inner_size_of(call.win) = Value(<<0, 0>>)

(* ------------------------------- C2 ------------------------------------ *)

GeometryQueries == {"inner_position", "outer_position", "inner_size", "outer_size"}

\* Right after the constructor returned for a CanvasId selection.
C2_After ==
    ReturnsNew("CanvasId")
    => /\ call.win = Len(windows)
       /\ windows[call.win].canvas = MatchOf(call.arg.id)
       /\ elems[windows[call.win].canvas].tag = "canvas"

C2_Step ==
    /\ ( /\ StartsNew("CanvasId")
         /\ Matches(call'.arg.id)
         /\ elems[MatchOf(call'.arg.id)].tag = "canvas" )
       => /\ ~halted'
          /\ call'.ret.kind = "InProgress"
          /\ pending' = MatchOf(call'.arg.id)
          /\ elems' = elems
    /\ (call'.op = "new" /\ call'.arg.kind = "CanvasId") => elems' = elems
    /\ call'.op = "id"
       => elems' = elems /\ ~halted' /\ call'.ret.kind = "Value"
    /\ call'.op \in GeometryQueries
       => elems' = elems /\ ~halted' /\ call'.ret.kind \in {"Ok", "Value"}
    /\ C2_After'

\* C2: Window::new with CanvasId(id), id naming an existing canvas, returns
\* Ok(Window) bound to that element, and neither the construction nor a later
\* id() or geometry query adds an element: the document is left as it was.
C2_CanvasIdCreatesNothing == [][C2_Step]_vars

\* C2 witness: a geometry query answered on a window bound to the existing
\* canvas "stage", with the document still holding its four initial elements.
C2_Witness ==
    /\ call.op \in GeometryQueries
    /\ windows[call.win].canvas = 2
    /\ Len(elems) = Len(InitialDocument)

(* ------------------------------- C3 ------------------------------------ *)

C3_Step ==
    /\ (pc = "idle" /\ call'.op = "new" /\ ~Matches(call'.arg.id))
       => /\ halted'
          /\ call'.ret.kind = "Panic"
          /\ windows' = windows
          /\ elems' = elems
          /\ registered' = registered
          /\ pc' = "idle"
    /\ ~halted

\* C3: Window::new with an identifier that matches no element of the document
\* halts: no Window is returned, as Ok or as Err, no element is created and
\* nothing is passed to setup_window; nothing runs after the halt.
C3_MissingIdHalts == [][C3_Step]_vars

\* C3 witness: the constructor halted on ContainerId("missing"), with no
\* window, no registration and the initial document.
C3_Witness ==
    /\ halted
    /\ call.op = "new" /\ call.arg = ContainerId("missing")
    /\ windows = <<>> /\ registered = <<>>
    /\ elems = InitialDocument

(* ------------------------------- C4 ------------------------------------ *)

\* The surfaces setup_window was given are those of the windows, in order.
C4_Registered ==
    pc = "idle" => registered = [i \in DOMAIN windows |-> windows[i].canvas]

C4_Step ==
    /\ ( /\ StartsNew("ContainerId")
         /\ Matches(call'.arg.id)
         /\ ~elems[MatchOf(call'.arg.id)].accepts )
       => call'.ret = Err("OsError")
    /\ (call'.op = "new" /\ call'.ret.kind = "Err")
       => /\ ~halted'
          /\ windows' = windows
          /\ registered' = registered
          /\ pc' = "idle"
    /\ Len(windows') > Len(windows)
       => /\ windows' = Append(windows, windows'[Len(windows')])
          /\ registered' = registered
          /\ registered = Append([i \in DOMAIN windows |-> windows[i].canvas],
                                 windows'[Len(windows')].canvas)
          /\ windows'[Len(windows')].canvas = pending
    /\ C4_Registered /\ C4_Registered'

\* C4: when the append to a found container fails, Window::new returns Err
\* without halting, returns no Window and does not call setup_window; every
\* successful construction calls setup_window exactly once, with the resolved
\* surface, before the Window is returned, so at rest the surfaces registered
\* are exactly those of the windows.
C4_AppendFailureIsErr == [][C4_Step]_vars

\* C4 witness: the constructor returned Err for ContainerId("stale"): the
\* canvas it created is detached, no Window exists and nothing is registered.
C4_Witness ==
    /\ call.op = "new" /\ call.ret = Err("OsError")
    /\ call.arg = ContainerId("stale")
    /\ elems[Newest].tag = "canvas" /\ elems[Newest].parent = None
    /\ windows = <<>> /\ registered = <<>>
    /\ ~halted

(* ------------------------------- C5 ------------------------------------ *)

C5_Step ==
    call'.op \in {"set_cursor_position", "set_cursor_grab"}
    => /\ call'.ret = Err("NotSupported")
       /\ ~halted'
       /\ UNCHANGED <<elems, windows, registered>>

\* C5: set_cursor_position(p) and set_cursor_grab(g) return
\* ExternalError::NotSupported for every argument in every window state; they
\* do not halt and change neither the surface binding, the cursor style nor
\* the pending-redraw flag.
C5_CursorNotSupported == [][C5_Step]_vars

\* C5 witness: set_cursor_grab(true) returned NotSupported on a window with a
\* pending redraw and a cursor style written before.
C5_Witness ==
    /\ call.op = "set_cursor_grab" /\ call.arg = TRUE
    /\ call.ret = Err("NotSupported")
    /\ windows[call.win].redraw_requested
    /\ CanvasOf(call.win).cursor = "pointer"

(* ------------------------------- C6 ------------------------------------ *)

FatalStopGroup ==
    {"set_outer_position", "set_inner_size", "set_min_inner_size",
     "set_max_inner_size", "set_title", "set_visible", "set_resizable",
     "set_window_icon"}

\* The methods of a constructed Window outside the fatal-stop group.
OtherMethods ==
    {"id", "hidpi_factor", "request_redraw", "inner_position", "outer_position",
     "inner_size", "outer_size", "set_maximized", "set_fullscreen", "fullscreen",
     "set_decorations", "set_always_on_top", "set_ime_position",
     "set_cursor_icon", "set_cursor_position", "set_cursor_grab",
     "set_cursor_visible", "current_monitor", "available_monitors",
     "primary_monitor"}

C6_Step ==
    /\ call'.op \in FatalStopGroup
       => /\ halted'
          /\ call'.ret.kind = "Panic"
          /\ UNCHANGED <<elems, windows, registered, pc>>
    /\ call'.op \in OtherMethods
       => ~halted' /\ call'.ret.kind # "Panic"
    /\ call'.op \in FatalStopGroup \cup OtherMethods \cup {"new", "host_layout", "event_loop_clear"}

\* C6: each of set_outer_position, set_inner_size, set_min_inner_size,
\* set_max_inner_size, set_title, set_visible, set_resizable and
\* set_window_icon halts on every call, for every argument and window state,
\* returning neither a value nor an error and changing no window state; no
\* other method of a constructed Window halts.
C6_FatalStopGroup == [][C6_Step]_vars

\* C6 witness: set_title halted the program on a window with a pending redraw.
C6_Witness ==
    /\ halted
    /\ call.op = "set_title" /\ call.ret.kind = "Panic"
    /\ windows[call.win].redraw_requested

(* ------------------------------- C7 ------------------------------------ *)

NoOpGroup ==
    {"set_maximized", "set_fullscreen", "set_decorations", "set_always_on_top",
     "set_ime_position"}

\* fullscreen() answers None on every window, whatever was called before.
C7_NotFullscreen == \A w \in Window : fullscreen_of(w) = OptionNone

C7_Step ==
    /\ call'.op \in NoOpGroup
       => /\ call'.ret = Unit
          /\ ~halted'
          /\ UNCHANGED <<elems, windows, registered, pc, pending>>
    /\ call'.op = "fullscreen"
       => /\ call'.ret = OptionNone
          /\ UNCHANGED <<elems, windows, registered, pc, pending, halted>>
    /\ C7_NotFullscreen /\ C7_NotFullscreen'

\* C7: set_maximized, set_fullscreen, set_decorations, set_always_on_top and
\* set_ime_position return at once for every argument and leave the surface
\* binding, the cursor style, the pending-redraw flag and so every query result
\* as they were; fullscreen() reports None in every reachable state, also
\* right after set_fullscreen(Some(monitor)).
C7_SilentNoOps == [][C7_Step]_vars

\* C7 witness: set_fullscreen(Some(monitor)) has just returned on a window with
\* a cursor style and a pending redraw, and fullscreen() there is None.
C7_Witness ==
    /\ call.op = "set_fullscreen" /\ call.arg = <<"MonitorHandle">>
    /\ call.ret = Unit
    /\ fullscreen_of(call.win) = OptionNone
    /\ windows[call.win].redraw_requested
    /\ CanvasOf(call.win).cursor = "none"

(* ------------------------------- C8 ------------------------------------ *)

C8_After ==
    call.op = "set_cursor_visible"
    => /\ call.arg = TRUE => CanvasOf(call.win).cursor = "none"
       /\ call.arg = FALSE => CanvasOf(call.win).cursor = "auto"
       /\ call.ret = Unit

C8_Step ==
    /\ C8_After /\ C8_After'
    /\ call'.op = "set_cursor_visible" => ~halted'

Compass ==
    [EResize |-> "e", NResize |-> "n", NeResize |-> "ne", NwResize |-> "nw",
     SResize |-> "s", SeResize |-> "se", SwResize |-> "sw", WResize |-> "w",
     EwResize |-> "ew", NsResize |-> "ns", NeswResize |-> "nesw",
     NwseResize |-> "nwse"]

C9_After ==
    call.op = "set_cursor_icon"
    => LET style == CanvasOf(call.win).cursor
       IN  /\ call.arg \in CursorIcon
           /\ style # ""
           /\ call.arg = "Crosshair" => style = "crosshair"
           /\ call.arg = "Hand" => style = "pointer"
           /\ call.arg \in DOMAIN Compass => style = Compass[call.arg] \o "-resize"
           /\ call.arg \notin MatchedIcons => style = "auto"
           /\ call.ret = Unit

C9_Step ==
    /\ C9_After /\ C9_After'
    /\ call'.op = "set_cursor_icon"
       => /\ ~halted'
          /\ UNCHANGED <<windows, registered, pc, pending>>
          /\ elems' = [elems EXCEPT ![windows[call'.win].canvas].cursor =
                                        elems'[windows[call'.win].canvas].cursor]

\* C9: set_cursor_icon is total: for every CursorIcon variant it writes a
\* non-empty style to the canvas's "cursor" property (Crosshair "crosshair",
\* Hand "pointer", each directional resize variant its compass direction
\* followed by "-resize", every variant the match does not name "auto"); it
\* returns unit, never an error, and changes nothing but that style.
C9_CursorIconTotal == [][C9_Step]_vars

\* C9 witness: set_cursor_icon(NeswResize) ran on a window with a pending
\* redraw and wrote "nesw-resize".
C9_Witness ==
    /\ call.op = "set_cursor_icon" /\ call.arg = "NeswResize"
    /\ CanvasOf(call.win).cursor = "nesw-resize"
    /\ windows[call.win].redraw_requested

(* ------------------------------- C10 ----------------------------------- *)

C10_After ==
    /\ \A w \in Window :
         LET box == CanvasOf(w).box
         IN  /\ outer_position_of(w) = inner_position_of(w)
             /\ outer_size_of(w) = inner_size_of(w)
             /\ inner_position_of(w) = Ok(<<box.x, box.y>>)
             /\ inner_size_of(w) = Value(<<box.width, box.height>>)
             /\ box = Rect(100, 50, 800, 600)
                => /\ outer_position_of(w) = Ok(<<100, 50>>)
                   /\ outer_size_of(w) = Value(<<800, 600>>)
    /\ call.op \in {"inner_position", "outer_position"}
       => call.ret = Ok(<<CanvasOf(call.win).box.x, CanvasOf(call.win).box.y>>)
    /\ call.op \in {"inner_size", "outer_size"}
       => call.ret = Value(<<CanvasOf(call.win).box.width,
                             CanvasOf(call.win).box.height>>)

\* C10: in every reachable state outer_position() equals inner_position() and
\* outer_size() equals inner_size(), both being the top-left corner and the
\* width and height of the canvas's current bounding box, also after the host
\* has changed that box; a box of (100,50,800x600) gives (100,50) and (800,600).
C10_OuterEqualsInner == C10_After

\* C10 witness: outer_size() answered 300x150 on the window bound to "stage",
\* whose box was (100,50,800x600) when the page was loaded.
C10_Witness ==
    /\ call.op = "outer_size"
    /\ windows[call.win].canvas = 2
    /\ call.ret = Value(<<300, 150>>)
    /\ elems[2].box # InitialDocument[2].box

(* ------------------------------- C11 ----------------------------------- *)

C11_After ==
    /\ (call.op = "new" /\ call.ret.kind = "Ok")
       => ~windows[call.win].redraw_requested
    /\ call.op = "request_redraw"
       => windows[call.win].redraw_requested /\ call.ret = Unit

C11_Step ==
    /\ C11_After /\ C11_After'
    /\ call'.op # "event_loop_clear"
       => \A w \in DOMAIN windows :
            windows[w].redraw_requested
            => w \in DOMAIN windows' /\ windows'[w].redraw_requested
    /\ call'.op = "request_redraw"
       => /\ ~halted'
          /\ windows' = [windows EXCEPT ![call'.win].redraw_requested = TRUE]
          /\ UNCHANGED <<elems, registered, pc, pending>>
          /\ windows[call'.win].redraw_requested => windows' = windows

\* C11: the pending-redraw flag is false in the Window the constructor
\* returns and true after every request_redraw(), which changes nothing when
\* the flag is already set; no Window method takes it from true to false, so
\* once set it stays true over any sequence of Window calls until the event
\* loop clears it.
C11_RedrawFlagMonotone == [][C11_Step]_vars

\* C11 witness: a pending redraw is still pending after a later cursor write
\* and a no-op setter on the same window.
C11_Witness ==
    /\ call.op = "set_maximized"
    /\ windows[call.win].redraw_requested
    /\ CanvasOf(call.win).cursor = "none"

====
